---- MODULE Spec2Model ----
(***************************************************************************)
(* dark-detector: the MQTT publisher (package mqtt) and the image          *)
(* acquirer (package image) as state machines.                             *)
(*                                                                         *)
(* Spec     : the Publisher object, its broker session, the on-connect     *)
(*            handler, the birth-topic callback, PublishLux and Disconnect.*)
(* FairSpec : Spec with the progress of Disconnect and of the broker's     *)
(*            acknowledgement while connected.                             *)
(* FairSpecPub : Spec with the progress the publishTimeout timer and the   *)
(*            scheduler give to the waits on publishes.                    *)
(* SpecDl   : Processor.Process / downloadImage (retry, backoff, cancel).  *)
(* SpecCrop : cropImage applied to a decoded image and a crop list.        *)
(* SpecLux  : calcLux applied to an image of uniform black or white.       *)
(* SpecUniform : calcLux applied to an image of one colour, in float64     *)
(*            arithmetic.                                                  *)
(* SpecSlug : the unique id NewPublisher derives from the entity name.     *)
(* SpecMain : main from config.Load on and runProcessingLoop (ticker,      *)
(*            error and signal channels); FairSpecMain adds the progress   *)
(*            of main's select.                                            *)
(***************************************************************************)
EXTENDS Integers, Sequences, FiniteSets, Bags, TLC

VARIABLES
    \* ---- package mqtt: Publisher and its paho client ----
    autoDiscoveryEnabled,     \* Publisher.autoDiscoveryEnabled (configuration)
    needToPublishDiscovery,   \* Publisher.needToPublishDiscovery (spec: discoveryPending)
    status,                   \* session: disconnected / connecting / connected / reconnecting / closed
    subscribed,               \* the broker holds the birth-topic subscription of this session
    connectPc,                \* Publisher.Connect: none / waiting / tokenFailed, then what it
                              \* returned: ok / tokenErr / timeout / cancelled
    handlers,                 \* the OnConnectHandler goroutines (one per entry into connected): how many are at each position
    luxPc,                    \* Publisher.PublishLux: idle / waitState / waitDisc
    luxResult,                \* what the last PublishLux returned: none / ok / err
    discPc,                   \* Publisher.Disconnect: none / wait / done
    offlineDone,              \* the token of the "offline" publish has completed
    sent,                     \* bag of the messages handed to client.Publish
    subs,                     \* number of client.Subscribe calls on the birth topic
    \* ---- observation of the run (history, not program state) ----
    calls,                    \* PublishLux calls started
    callsFailed,              \* a PublishLux call has returned an error
    births,                   \* messages delivered on the birth topic
    onlines,                  \* of these, the ones with payload "online"
    pendingAtCall,            \* needToPublishDiscovery when the current/last PublishLux was called
    onlineInCall,             \* a birth "online" was delivered during the current/last PublishLux
    callDisc,                 \* discovery publishes issued by the current/last PublishLux
    connects,                 \* entries of the session into connected
    owed,                     \* a birth "online" arrived and no discovery publish was issued since
    \* ---- package image: Processor.Process ----
    urlOk,                    \* url.Parse accepts Processor.imageURL
    imageCrop,                \* Processor.imageCrop: Nil, or Ptr to the list of integers
    dlPc,                     \* idle / inflight / responded / backoff / done
    attempt,                  \* downloadImage: the loop variable
    lastErr,                  \* downloadImage: lastErr
    resp,                     \* what httpClient.Do returned for the attempt in flight
    cancelled,                \* ctx.Done() is closed
    result,                   \* what Process returned
    httpAttempts,             \* httpClient.Do calls of this Process call
    waited,                   \* backoff time-units slept through by this Process call
    processCalls,             \* Process calls started
    cancelPoint,              \* where Process was when ctx was cancelled, and the counts then
    \* ---- package main: main and runProcessingLoop ----
    mainPc,                   \* main: load / fatalLoad (log.Fatalf) / connect / fatalConnect
                              \* (log.Fatalf) / select / exit1 (os.Exit(1)) / shutdown
                              \* (signal branch) / exit0
    loopPc,                   \* runProcessingLoop: select / process / publish / returned
    tickerC,                  \* ticks waiting in ticker.C
    errChan,                  \* errChan (capacity 1): "empty" or the error it holds
    sigChan,                  \* signals waiting in sigChan
    ctxDone,                  \* cancel() was called
    ticks,                    \* history: ticks the ticker fired
    dropped,                  \* history: ticks the ticker dropped on a full channel
    cycles,                   \* history: Process calls of the loop
    publishes,                \* history: PublishLux calls of the loop
    ticksInCycle,             \* history: ticks fired during the current/last cycle
    cycleErr,                 \* history: a Process or PublishLux call of the loop returned an error
    cropEnv,                  \* the environment variable IMAGE_CROP, split at its commas
    loopLux,                  \* runProcessingLoop: lux, as the last Process call left it
    processed,                \* history: what the Process calls of the loop returned
    luxSent,                  \* history: the arguments of the PublishLux calls of the loop
    disconnects,              \* history: publisher.Disconnect calls of main
    \* ---- package image: cropImage as a function ----
    cropIn,                   \* the arguments: [img, imageCrop]
    cropOut,                  \* what cropImage returned for them
    \* ---- package image: calcLux as a function ----
    calcIn,                   \* the argument: the image
    calcOut,                  \* what calcLux returned for it
    \* ---- package mqtt: the unique id of NewPublisher ----
    entityName,               \* cfg.HASSName, a sequence of characters
    uniqueIDs                 \* Publisher.uniqueID of the publishers built from it so far

pubVars == <<autoDiscoveryEnabled, needToPublishDiscovery, status, subscribed, connectPc,
             handlers, luxPc, luxResult, discPc, offlineDone, sent, subs, calls,
             callsFailed, births, onlines, pendingAtCall, onlineInCall, callDisc, connects,
             owed>>
dlVars == <<urlOk, imageCrop, dlPc, attempt, lastErr, resp, cancelled, result, httpAttempts, waited,
            processCalls, cancelPoint>>
runVars == <<cropEnv, loopLux, processed, luxSent, disconnects>>
mainVars == <<mainPc, loopPc, tickerC, errChan, sigChan, ctxDone, ticks, dropped, cycles,
              publishes, ticksInCycle, cycleErr, runVars>>
cropVars == <<cropIn, cropOut>>
luxVars == <<calcIn, calcOut>>
slugVars == <<entityName, uniqueIDs>>
fnVars == <<cropVars, luxVars, slugVars>>
vars == <<pubVars, dlVars, mainVars, fnVars>>

\* what a step of one component leaves alone
offPub == <<dlVars, mainVars, fnVars>>
offDl == <<pubVars, mainVars, fnVars>>
offMain == <<pubVars, dlVars, fnVars>>
offCrop == <<pubVars, dlVars, mainVars, luxVars, slugVars>>
offLux == <<pubVars, dlVars, mainVars, cropVars, slugVars>>
offSlug == <<pubVars, dlVars, mainVars, cropVars, luxVars>>

----------------------------------------------------------------------------
(* Bounds of the model *)
MaxCalls == 3
MaxConnects == 2
MaxBirths == 2
MaxProcessCalls == 2
MaxTicks == 4
MaxDim == 3
MaxNameLen == 2
MaxPublishers == 2
MaxCropFields == 5

----------------------------------------------------------------------------
(* package mqtt: constants, topics and messages *)

Luxes == {0, 9500}

Digits == <<"0", "1", "2", "3", "4", "5", "6", "7", "8", "9">>

RECURSIVE Itoa(_)
Itoa(n) == IF n < 10 THEN Digits[n + 1] ELSE Itoa(n \div 10) \o Digits[(n % 10) + 1]

\* strings the code transforms are sequences of one-character strings
UpperCase == <<"A", "B", "C", "D", "E", "F", "G", "H", "I", "J", "K", "L", "M",
               "N", "O", "P", "Q", "R", "S", "T", "U", "V", "W", "X", "Y", "Z">>
LowerCase == <<"a", "b", "c", "d", "e", "f", "g", "h", "i", "j", "k", "l", "m",
               "n", "o", "p", "q", "r", "s", "t", "u", "v", "w", "x", "y", "z">>

\* mutant of ToLowerRune: the case is swapped
SwapCaseRune(c) ==
    IF \E i \in DOMAIN UpperCase : UpperCase[i] = c
    THEN LowerCase[CHOOSE i \in DOMAIN UpperCase : UpperCase[i] = c]
    ELSE IF \E i \in DOMAIN LowerCase : LowerCase[i] = c
         THEN UpperCase[CHOOSE i \in DOMAIN LowerCase : LowerCase[i] = c]
         ELSE c

\* unicode.ToLower on an ASCII character
ToLowerRune(c) ==
    IF \E i \in DOMAIN UpperCase : UpperCase[i] = c
    THEN LowerCase[CHOOSE i \in DOMAIN UpperCase : UpperCase[i] = c]
    ELSE c

\* strings.ToLower
ToLower(str) == [i \in DOMAIN str |-> ToLowerRune(str[i])]

\* strings.ReplaceAll(str, old, new) for one-character old and new
ReplaceAll(str, old, new) == [i \in DOMAIN str |-> IF str[i] = old THEN new ELSE str[i]]

\* NewPublisher: uniqueId := strings.ToLower(strings.ReplaceAll(entityName, " ", "_"))
slug(name) == ToLower(ReplaceAll(name, " ", "_"))

\* the characters of a sequence as one string
RECURSIVE String(_)
String(str) == IF str = <<>> THEN "" ELSE str[1] \o String(Tail(str))

\* the default of HASS_NAME
HASSName == <<"L", "i", "g", "h", "t", " ", "S", "e", "n", "s", "o", "r">>

uniqueID == String(slug(HASSName))
topic == <<"darkdetector", uniqueID, "state">>
availabilityTopic == <<"darkdetector", uniqueID, "availability">>
discoveryTopic == <<"homeassistant", "sensor", uniqueID, "config">>
statusTopic == <<"homeassistant", "status">>

Message(t, q, r, p) == [topic |-> t, qos |-> q, retained |-> r, payload |-> p]

\* mutant of StateMsg: the state is published retained
StateMsgRetained(lux) == Message(topic, 1, TRUE, Itoa(lux))

StateMsg(lux) == Message(topic, 1, FALSE, Itoa(lux))
OnlineMsg == Message(availabilityTopic, 2, TRUE, "online")
OfflineMsg == Message(availabilityTopic, 2, TRUE, "offline")
DiscoveryMsg == Message(discoveryTopic, 1, TRUE, "DiscoveryPayload")

Publish(m) == sent (+) SetToBag({m})

Count(m) == CopiesIn(m, sent)

RECURSIVE CountIn(_)
CountIn(S) == IF S = {} THEN 0
              ELSE LET m == CHOOSE x \in S : TRUE IN Count(m) + CountIn(S \ {m})

\* the messages published so far on topic t
CountOn(t) == CountIn({m \in BagToSet(sent) : m.topic = t})

BirthPayloads == {"online", "offline", "Online", ""}

----------------------------------------------------------------------------
(* package mqtt: NewPublisher and the session *)

HandlerPcs == {"publish", "wait", "waitSub", "done"}

\* one handler goroutine moves from position a to position b
Move(hs, a, b) == [hs EXCEPT ![a] = @ - 1, ![b] = hs[b] + 1]

NewPublisher ==
    /\ autoDiscoveryEnabled \in BOOLEAN
    /\ needToPublishDiscovery = TRUE
    /\ status = "disconnected"
    /\ subscribed = FALSE
    /\ connectPc = "none"
    /\ handlers = [pc \in HandlerPcs |-> 0]
    /\ luxPc = "idle"
    /\ luxResult = "none"
    /\ discPc = "none"
    /\ offlineDone = FALSE
    /\ sent = EmptyBag
    /\ subs = 0
    /\ calls = 0
    /\ callsFailed = FALSE
    /\ births = 0
    /\ onlines = 0
    /\ pendingAtCall = FALSE
    /\ onlineInCall = FALSE
    /\ callDisc = 0
    /\ connects = 0
    /\ owed = FALSE

\* the observation of PublishLux calls and birth messages
callVars == <<calls, callsFailed, pendingAtCall, onlineInCall, callDisc>>
obsVars == <<callVars, births, onlines, owed, connects>>

\* Publisher.Connect: client.Connect() starts the handshake, or completes the token
\* with an error at once (no usable broker address); Connect then waits in its select
Connect ==
    /\ connectPc = "none"
    /\ status = "disconnected"
    /\ \/ connectPc' = "waiting" /\ status' = "connecting"
       \/ connectPc' = "tokenFailed" /\ status' = "disconnected"
    /\ UNCHANGED <<autoDiscoveryEnabled, needToPublishDiscovery, subscribed, handlers, luxPc,
                   luxResult, discPc, offlineDone, sent, subs, obsVars>>

\* mutant of waitForToken: the channel is closed although the token is not complete
waitForTokenClosed == TRUE

\* waitForToken(token) for the connect token: its channel is closed once token.Wait()
\* returned, that is once the handshake completed (a later loss of the connection
\* leaves the token complete)
waitForToken == status \in {"connected", "reconnecting"}

\* Publisher.Connect: the token completed without error
ConnectReturnOk ==
    /\ connectPc = "waiting"
    /\ waitForToken
    /\ connectPc' = "ok"
    /\ UNCHANGED <<autoDiscoveryEnabled, needToPublishDiscovery, status, subscribed, handlers,
                   luxPc, luxResult, discPc, offlineDone, sent, subs, obsVars>>

\* Publisher.Connect: the token completed with an error
ConnectReturnTokenErr ==
    /\ connectPc = "tokenFailed"
    /\ connectPc' = "tokenErr"
    /\ UNCHANGED <<autoDiscoveryEnabled, needToPublishDiscovery, status, subscribed, handlers,
                   luxPc, luxResult, discPc, offlineDone, sent, subs, obsVars>>

\* what ends the select of Connect before the token's channel does
ConnectErrs == {"timeout", "cancelled"}

\* Publisher.Connect: the connectionTimeout timer fired or ctx was cancelled first; the
\* client goes on trying (SetConnectRetry(true))
ConnectReturnErr(cause) ==
    /\ connectPc \in {"waiting", "tokenFailed"}
    /\ connectPc' = cause
    /\ UNCHANGED <<autoDiscoveryEnabled, needToPublishDiscovery, status, subscribed, handlers,
                   luxPc, luxResult, discPc, offlineDone, sent, subs, obsVars>>

\* mutant of OnConnect: the handler runs for the first connection only
OnConnectFirstOnly(hs) ==
    IF \A pc \in DOMAIN hs : hs[pc] = 0 THEN [hs EXCEPT !["publish"] = @ + 1] ELSE hs

\* the client enters connected (first connect or automatic reconnect) and starts
\* the OnConnectHandler in a goroutine of its own
OnConnect(hs) == [hs EXCEPT !["publish"] = @ + 1]

BrokerConnected ==
    /\ status \in {"connecting", "reconnecting"}
    /\ connects < MaxConnects
    /\ status' = "connected"
    /\ handlers' = OnConnect(handlers)
    /\ connects' = connects + 1
    /\ UNCHANGED <<autoDiscoveryEnabled, needToPublishDiscovery, subscribed, connectPc, luxPc,
                   luxResult, discPc, offlineDone, sent, subs, callVars, births, onlines, owed>>

\* the transport is lost: ConnectionLostHandler only logs; SetAutoReconnect(true) starts
\* reconnecting, SetCleanSession(true) makes the broker drop the subscriptions
ConnectionLost ==
    /\ status = "connected"
    /\ status' = "reconnecting"
    /\ subscribed' = FALSE
    /\ UNCHANGED <<autoDiscoveryEnabled, needToPublishDiscovery, connectPc, handlers, luxPc,
                   luxResult, discPc, offlineDone, sent, subs, obsVars>>

----------------------------------------------------------------------------
(* package mqtt: the OnConnectHandler goroutines *)

\* client.Publish(availabilityTopic, 2, true, "online")
OnConnect_Publish ==
    /\ handlers["publish"] > 0
    /\ sent' = Publish(OnlineMsg)
    /\ handlers' = Move(handlers, "publish", "wait")
    /\ UNCHANGED <<autoDiscoveryEnabled, needToPublishDiscovery, status, subscribed, connectPc,
                   luxPc, luxResult, discPc, offlineDone, subs, obsVars>>

\* mutant of SubscribeHomeAssistantStatus: the subscription is made whatever the
\* configuration says
SubscribeAlways == "waitSub"

\* Publisher.SubscribeHomeAssistantStatus up to its wait: nothing is subscribed
\* when auto-discovery is off
SubscribeHomeAssistantStatus == IF autoDiscoveryEnabled THEN "waitSub" ELSE "done"

\* token.Wait() returns, with the acknowledgement or with the token's error (logged);
\* then SubscribeHomeAssistantStatus issues client.Subscribe on <discovery-root>/status
OnConnect_Subscribe ==
    /\ handlers["wait"] > 0
    /\ status \in {"connected", "closed"}
    /\ handlers' = Move(handlers, "wait", SubscribeHomeAssistantStatus)
    /\ subs' = IF SubscribeHomeAssistantStatus = "waitSub" THEN subs + 1 ELSE subs
    /\ UNCHANGED <<autoDiscoveryEnabled, needToPublishDiscovery, status, subscribed, connectPc,
                   luxPc, luxResult, discPc, offlineDone, sent, obsVars>>

\* waitForPublish(ctx, token) on the subscribe token: the broker acknowledged
OnConnect_SubAck ==
    /\ handlers["waitSub"] > 0
    /\ status = "connected"
    /\ subscribed' = TRUE
    /\ handlers' = Move(handlers, "waitSub", "done")
    /\ UNCHANGED <<autoDiscoveryEnabled, needToPublishDiscovery, status, connectPc, luxPc,
                   luxResult, discPc, offlineDone, sent, subs, obsVars>>

\* waitForPublish(ctx, token) on the subscribe token: publishTimeout or a token error;
\* the handler logs it and ends
OnConnect_SubFail ==
    /\ handlers["waitSub"] > 0
    /\ handlers' = Move(handlers, "waitSub", "done")
    /\ UNCHANGED <<autoDiscoveryEnabled, needToPublishDiscovery, status, subscribed, connectPc,
                   luxPc, luxResult, discPc, offlineDone, sent, subs, obsVars>>

----------------------------------------------------------------------------
(* package mqtt: the birth-topic callback *)

\* mutant of BirthCallback: the callback never sets the flag
BirthCallbackIgnored(payload, flag) == flag

\* mutant of BirthCallback: a payload other than "online" clears the flag
BirthCallbackClears(payload, flag) == payload = "online"

\* mutant of BirthCallback: every message on the birth topic sets the flag
BirthCallbackAny(payload, flag) == TRUE

\* the message handler of SubscribeHomeAssistantStatus with the onOnline closure of
\* NewPublisher: what needToPublishDiscovery is after a message with this payload
BirthCallback(payload, flag) == IF payload = "online" THEN TRUE ELSE flag

BirthMessage(payload) ==
    /\ subscribed
    /\ status = "connected"
    /\ births < MaxBirths
    /\ needToPublishDiscovery' = BirthCallback(payload, needToPublishDiscovery)
    /\ births' = births + 1
    /\ onlines' = IF payload = "online" THEN onlines + 1 ELSE onlines
    /\ owed' = (owed \/ payload = "online")
    /\ onlineInCall' = (onlineInCall \/ (payload = "online" /\ luxPc # "idle"))
    /\ UNCHANGED <<autoDiscoveryEnabled, status, subscribed, connectPc, handlers, luxPc,
                   luxResult, discPc, offlineDone, sent, subs, connects, calls, callsFailed,
                   pendingAtCall, callDisc>>

----------------------------------------------------------------------------
(* package mqtt: PublishLux and PublishDiscovery, called by the tick driver *)

\* PublishLux: client.Publish(p.topic, 1, false, strconv.Itoa(lux))
PublishLux(lux) ==
    /\ luxPc = "idle"
    /\ connectPc = "ok"
    /\ calls < MaxCalls
    /\ sent' = Publish(StateMsg(lux))
    /\ luxPc' = "waitState"
    /\ calls' = calls + 1
    /\ pendingAtCall' = needToPublishDiscovery
    /\ onlineInCall' = FALSE
    /\ callDisc' = 0
    /\ UNCHANGED <<autoDiscoveryEnabled, needToPublishDiscovery, status, subscribed, connectPc,
                   handlers, luxResult, discPc, offlineDone, subs, callsFailed, births, onlines,
                   owed, connects>>

\* mutant of DiscoveryDue: the flag is not consulted
DiscoveryDueAlways == autoDiscoveryEnabled

\* PublishDiscovery: the guard of its first statement
DiscoveryDue == autoDiscoveryEnabled /\ needToPublishDiscovery

\* waitForPublish on the state token returned nil; PublishDiscovery returns nil at
\* once or issues client.Publish(discoveryTopic, 1, true, discoveryPayload)
PublishLux_StateOk ==
    /\ luxPc = "waitState"
    /\ status = "connected"
    /\ IF DiscoveryDue
       THEN /\ sent' = Publish(DiscoveryMsg)
            /\ luxPc' = "waitDisc"
            /\ callDisc' = callDisc + 1
            /\ owed' = FALSE
            /\ UNCHANGED luxResult
       ELSE /\ luxPc' = "idle"
            /\ luxResult' = "ok"
            /\ UNCHANGED <<sent, callDisc, owed>>
    /\ UNCHANGED <<autoDiscoveryEnabled, needToPublishDiscovery, status, subscribed, connectPc,
                   handlers, discPc, offlineDone, subs, calls, callsFailed, pendingAtCall,
                   onlineInCall, births, onlines, connects>>

\* waitForPublish on the state token returned an error (ctx.Done, the publishTimeout
\* timer, or the token's error): PublishLux returns it, PublishDiscovery is not called
PublishLux_StateFail ==
    /\ luxPc = "waitState"
    /\ luxPc' = "idle"
    /\ luxResult' = "err"
    /\ callsFailed' = TRUE
    /\ UNCHANGED <<autoDiscoveryEnabled, needToPublishDiscovery, status, subscribed, connectPc,
                   handlers, discPc, offlineDone, sent, subs, calls, pendingAtCall,
                   onlineInCall, callDisc, births, onlines, owed, connects>>

\* PublishDiscovery: the value it stores in needToPublishDiscovery once
\* waitForPublish on the discovery token returned nil
AfterDiscoveryOk == FALSE

\* mutant of AfterDiscoveryFail: the flag is cleared before the error is looked at
AfterDiscoveryFailCleared == FALSE

\* PublishDiscovery: needToPublishDiscovery after waitForPublish on the discovery
\* token returned an error (the store is not reached)
AfterDiscoveryFail == needToPublishDiscovery

PublishLux_DiscoveryOk ==
    /\ luxPc = "waitDisc"
    /\ status = "connected"
    /\ needToPublishDiscovery' = AfterDiscoveryOk
    /\ luxPc' = "idle"
    /\ luxResult' = "ok"
    /\ UNCHANGED <<autoDiscoveryEnabled, status, subscribed, connectPc, handlers, discPc,
                   offlineDone, sent, subs, obsVars>>

PublishLux_DiscoveryFail ==
    /\ luxPc = "waitDisc"
    /\ needToPublishDiscovery' = AfterDiscoveryFail
    /\ luxPc' = "idle"
    /\ luxResult' = "err"
    /\ callsFailed' = TRUE
    /\ UNCHANGED <<autoDiscoveryEnabled, status, subscribed, connectPc, handlers, discPc,
                   offlineDone, sent, subs, calls, pendingAtCall, onlineInCall, callDisc,
                   births, onlines, owed, connects>>

----------------------------------------------------------------------------
(* package mqtt: Disconnect *)

\* mutant of DisconnectPublish: the session is closed without the publish
DisconnectNoPublish == sent

\* Disconnect: client.Publish(p.availabilityTopic, 2, true, "offline")
DisconnectPublish == Publish(OfflineMsg)

Disconnect ==
    /\ discPc = "none"
    /\ connectPc = "ok"
    /\ sent' = DisconnectPublish
    /\ discPc' = "wait"
    /\ UNCHANGED <<autoDiscoveryEnabled, needToPublishDiscovery, status, subscribed, connectPc,
                   handlers, luxPc, luxResult, offlineDone, subs, obsVars>>

\* the broker acknowledges the "offline" publish: its token completes
OfflineAcked ==
    /\ discPc = "wait"
    /\ status = "connected"
    /\ ~offlineDone
    /\ offlineDone' = TRUE
    /\ UNCHANGED <<autoDiscoveryEnabled, needToPublishDiscovery, status, subscribed, connectPc,
                   handlers, luxPc, luxResult, discPc, sent, subs, obsVars>>

\* Disconnect: token.Wait() returned; client.Disconnect(250) closes the session
Disconnect_Close ==
    /\ discPc = "wait"
    /\ offlineDone
    /\ status' = "closed"
    /\ subscribed' = FALSE
    /\ discPc' = "done"
    /\ UNCHANGED <<autoDiscoveryEnabled, needToPublishDiscovery, connectPc, handlers, luxPc,
                   luxResult, offlineDone, sent, subs, obsVars>>

----------------------------------------------------------------------------
(* package image: errors, images, cropImage, calcLux *)

\* an error is the chain of its messages, outermost first: fmt.Errorf("...: %w", err)
\* puts a message in front of err's chain, and the chain's last entry is its cause
Wrap(msg, err) == <<msg>> \o err
Cause(err) == err[Len(err)]

ctxErr == <<"context canceled">>

\* mutant of maxRetries: one attempt more
maxRetriesMore == 3 + 1

maxRetries == 3
cropWidth == 100
cropHeight == 100
luxScale == 9500

min(a, b) == IF a < b THEN a ELSE b
max(a, b) == IF a > b THEN a ELSE b

\* image.Rect: the corners are swapped where needed so that Min <= Max
Rect(x0, y0, x1, y1) ==
    [minX |-> min(x0, x1), minY |-> min(y0, y1), maxX |-> max(x0, x1), maxY |-> max(y0, y1)]

Empty(r) == r.minX >= r.maxX \/ r.minY >= r.maxY

\* mutant of Intersect: SubImage takes the rectangle as it is given
IntersectNot(r, s) == r

\* image.Rectangle.Intersect, as SubImage applies it
Intersect(r, s) ==
    LET t == [minX |-> max(r.minX, s.minX), minY |-> max(r.minY, s.minY),
              maxX |-> min(r.maxX, s.maxX), maxY |-> min(r.maxY, s.maxY)]
    IN  IF Empty(t) THEN [minX |-> 0, minY |-> 0, maxX |-> 0, maxY |-> 0] ELSE t

\* cropImage on a decoded image: the error or the sub-image
cropImage(img, crop) ==
    IF Empty(img.rect) THEN [err |-> <<"image has no pixels to crop">>]
    ELSE IF Len(crop) # 2 /\ Len(crop) # 4 THEN [err |-> <<"invalid crop dimensions">>]
    ELSE LET width == IF Len(crop) = 4 THEN crop[3] ELSE cropWidth
             height == IF Len(crop) = 4 THEN crop[4] ELSE cropHeight
             x1 == max(crop[1], img.rect.minX)
             y1 == max(crop[2], img.rect.minY)
             x2 == min(x1 + width, img.rect.maxX)
             y2 == min(y1 + height, img.rect.maxY)
         IN  [err |-> <<>>,
              img |-> [img EXCEPT !.rect = Intersect(Rect(x1, y1, x2, y2), img.rect)]]

\* The float64 values of the lux computation are kept as integers in units of 1e-4,
\* the precision of the BT.709 weights: One is 1.0. For the samples of black and of
\* white pixels every float64 operation of the code is exact (0.2126 + 0.7152 +
\* 0.0722 and (1 + 0.055) / 1.055 both round to 1.0), so the integers follow it.
One == 10000
rWeight == 2126
gWeight == 7152
bWeight == 722
scale == 65535

\* scaleLux: int(totalBrightness / pixels * luxScale)
scaleLux(totalBrightness, pixels) ==
    IF pixels = 0 THEN 0 ELSE (totalBrightness * luxScale) \div (pixels * One)

\* srgbToLinear(c) for c = sample / full, at the two samples of the model: 0 is below
\* srgbThreshold and gives 0 / 12.92, full gives math.Pow(1.055 / 1.055, 2.4)
srgbToLinear(sample, full) ==
    CASE sample = 0 -> 0
      [] sample = full -> One

\* the 8-bit samples in Pix of an *image.RGBA pixel (r = g = b)
Pix(img) == IF img.white THEN 255 ELSE 0

\* the 16-bit samples img.At(x, y).RGBA() gives (r = g = b)
At(img, x, y) == IF img.white THEN scale ELSE 0

\* mutant of Luminance: the blue channel is left out
LuminanceNoBlue(c) == (c * rWeight + c * gWeight) \div One

\* r*rWeight + g*gWeight + b*bWeight for a pixel with r = g = b = c
Luminance(c) == (c * rWeight + c * gWeight + c * bWeight) \div One

\* the two nested loops over y < height, x < width: the sum of lum over the pixels
RECURSIVE SumPixels(_, _, _)
SumPixels(lum, width, n) ==
    IF n = 0 THEN 0
    ELSE lum[<<(n - 1) % width, (n - 1) \div width>>] + SumPixels(lum, width, n - 1)

\* calcLuxRGBA: the lookup table of srgbToLinear(i / 255.0) applied to Pix
calcLuxRGBA(img, width, height) ==
    LET lum == [xy \in (0 .. width - 1) \X (0 .. height - 1) |->
                    Luminance(srgbToLinear(Pix(img), 255))]
    IN  [err |-> <<>>, lux |-> scaleLux(SumPixels(lum, width, width * height), width * height)]

\* calcLux: the empty check, the *image.RGBA path or the loop over img.At
calcLux(img) ==
    IF Empty(img.rect) THEN [err |-> <<"image has no pixels to process">>, lux |-> 0]
    ELSE LET width == img.rect.maxX - img.rect.minX
             height == img.rect.maxY - img.rect.minY
             lum == [xy \in (0 .. width - 1) \X (0 .. height - 1) |->
                        Luminance(srgbToLinear(At(img, xy[1] + img.rect.minX,
                                                  xy[2] + img.rect.minY), scale))]
         IN  IF img.rgba THEN calcLuxRGBA(img, width, height)
             ELSE [err |-> <<>>,
                   lux |-> scaleLux(SumPixels(lum, width, width * height), width * height)]

\* what image.Decode can give for a body: an image with uniform pixels, of type
\* *image.RGBA or of another type, or an image without pixels
DecodedImages ==
    {[rect |-> Rect(0, 0, 2, 2), white |-> b, rgba |-> k] : b \in BOOLEAN, k \in BOOLEAN}
    \cup {[rect |-> Rect(0, 0, 0, 0), white |-> FALSE, rgba |-> FALSE]}

\* a *[]int: nil, or the pointer to a list
Nil == <<>>
Ptr(list) == <<list>>

Crops == {Nil, Ptr(<<0, 0, 1, 1>>), Ptr(<<3, 3>>)}

\* what httpClient.Do can return while ctx is not cancelled
Responses ==
    {[kind |-> "error", err |-> <<"Get: connection refused">>],
     [kind |-> "status", code |-> 404],
     [kind |-> "status", code |-> 500],
     [kind |-> "undecodable"]}
    \cup {[kind |-> "image", img |-> i] : i \in DecodedImages}

\* what httpClient.Do returns once the request's ctx is cancelled: a *url.Error that
\* wraps ctx.Err()
CancelledResponse == [kind |-> "error", err |-> Wrap("Get", ctxErr)]

NoResponse == [kind |-> "none"]
NoResult == [err |-> <<>>, lux |-> 0, returned |-> FALSE]
NoCancel == [at |-> "none", httpAttempts |-> 0, waited |-> 0]

----------------------------------------------------------------------------
(* package image: Processor.Process and downloadImage *)

\* no Process call was made yet
NotProcessed ==
    /\ dlPc = "idle"
    /\ attempt = 0
    /\ lastErr = <<>>
    /\ resp = NoResponse
    /\ cancelled = FALSE
    /\ result = NoResult
    /\ httpAttempts = 0
    /\ waited = 0
    /\ processCalls = 0
    /\ cancelPoint = NoCancel

NewProcessor ==
    /\ urlOk \in BOOLEAN
    /\ imageCrop \in Crops
    /\ NotProcessed

\* Process returns (lux, err)
Return(lux, err) == [err |-> err, lux |-> lux, returned |-> TRUE]

\* mutant of urlParse: every URL is accepted
urlParseAny == <<>>

\* url.Parse(p.imageURL): its error, none when the URL parses
urlParse == IF urlOk THEN <<>> ELSE <<"parse error">>

\* Process: url.Parse fails, or downloadImage starts its first attempt
Process ==
    /\ dlPc \in {"idle", "done"}
    /\ processCalls < MaxProcessCalls
    /\ processCalls' = processCalls + 1
    /\ attempt' = 0
    /\ lastErr' = <<>>
    /\ resp' = NoResponse
    /\ waited' = 0
    /\ cancelPoint' = IF cancelled THEN [NoCancel EXCEPT !.at = "before"] ELSE NoCancel
    /\ IF urlParse = <<>>
       THEN /\ dlPc' = "inflight"
            /\ httpAttempts' = 1
            /\ result' = NoResult
       ELSE /\ dlPc' = "done"
            /\ httpAttempts' = 0
            /\ result' = Return(0, Wrap("invalid image URL", urlParse))
    /\ UNCHANGED <<urlOk, imageCrop, cancelled>>

\* the caller cancels ctx
Cancel ==
    /\ ~cancelled
    /\ cancelled' = TRUE
    /\ cancelPoint' = [at |-> dlPc, httpAttempts |-> httpAttempts, waited |-> waited]
    /\ UNCHANGED <<urlOk, imageCrop, dlPc, attempt, lastErr, resp, result, httpAttempts,
                   waited, processCalls>>

\* httpClient.Do returns
Do(r) ==
    /\ dlPc = "inflight"
    /\ r = IF cancelled THEN CancelledResponse ELSE r
    /\ resp' = r
    /\ dlPc' = "responded"
    /\ UNCHANGED <<urlOk, imageCrop, attempt, lastErr, cancelled, result, httpAttempts,
                   waited, processCalls, cancelPoint>>

\* downloadImage: the error an attempt with this response stores in lastErr
AttemptErr(r) ==
    CASE r.kind = "error" -> Wrap("failed to download image", r.err)
      [] r.kind = "status" -> <<"unexpected status code: " \o Itoa(r.code)>>
      [] r.kind = "undecodable" -> Wrap("failed to decode image", <<"image: unknown format">>)

\* mutant of FailedAfter: %v in place of %w, the chain is flattened to one message
FailedAfterFlat(err) == <<"failed after 3 attempts: " \o err[1]>>

\* downloadImage: the error after the loop ran out of attempts
FailedAfter(err) == Wrap("failed after " \o Itoa(maxRetries) \o " attempts", err)

\* downloadImage: the backoff before the attempt with this loop index, 1<<attempt
Backoff(a) == 2 ^ a

\* mutant of ProcessImage: the error of calcLux is dropped
ProcessImageAnyway(img) == Return(calcLux(img).lux, <<>>)

\* Process: what it returns for the image downloadImage gave it
ProcessImage(img) ==
    LET c == calcLux(img)
    IN  IF c.err # <<>> THEN Return(0, Wrap("error processing image", c.err))
        ELSE Return(c.lux, <<>>)

\* downloadImage handles the response of the attempt: a failed attempt continues the
\* loop (the next backoff, or the end of the loop); a decoded image is cropped and
\* returned to Process, which computes the lux
HandleResponse ==
    /\ dlPc = "responded"
    /\ IF resp.kind = "image"
       THEN LET cr == IF imageCrop = Nil THEN [err |-> <<>>, img |-> resp.img]
                      ELSE cropImage(resp.img, imageCrop[1])
            IN  /\ result' = IF cr.err # <<>>
                             THEN Return(0, Wrap("error downloading image",
                                                 Wrap("failed to crop image", cr.err)))
                             ELSE ProcessImage(cr.img)
                /\ dlPc' = "done"
                /\ UNCHANGED <<attempt, lastErr>>
       ELSE /\ lastErr' = AttemptErr(resp)
            /\ attempt' = attempt + 1
            /\ IF attempt + 1 < maxRetries
               THEN /\ dlPc' = "backoff"
                    /\ UNCHANGED result
               ELSE /\ dlPc' = "done"
                    /\ result' = Return(0, Wrap("error downloading image",
                                                FailedAfter(AttemptErr(resp))))
    /\ UNCHANGED <<urlOk, imageCrop, resp, cancelled, httpAttempts, waited, processCalls,
                   cancelPoint>>

\* the select of the backoff: ctx.Done() is ready
Backoff_Cancelled ==
    /\ dlPc = "backoff"
    /\ cancelled
    /\ dlPc' = "done"
    /\ result' = Return(0, Wrap("error downloading image", ctxErr))
    /\ UNCHANGED <<urlOk, imageCrop, attempt, lastErr, resp, cancelled, httpAttempts,
                   waited, processCalls, cancelPoint>>

\* the select of the backoff: time.After(backoff) fired; the next attempt starts
Backoff_Elapsed ==
    /\ dlPc = "backoff"
    /\ ~cancelled
    /\ waited' = waited + Backoff(attempt)
    /\ httpAttempts' = httpAttempts + 1
    /\ dlPc' = "inflight"
    /\ UNCHANGED <<urlOk, imageCrop, attempt, lastErr, resp, cancelled, result,
                   processCalls, cancelPoint>>

----------------------------------------------------------------------------
(* package image: cropImage on its own *)

\* the bounds of decoded images (image.Decode gives bounds with Min = (0, 0))
CropSources == {[rect |-> Rect(0, 0, 200, 200), white |-> TRUE, rgba |-> TRUE],
                [rect |-> Rect(0, 0, 50, 80), white |-> TRUE, rgba |-> FALSE],
                [rect |-> Rect(0, 0, 0, 0), white |-> TRUE, rgba |-> FALSE]}

CropCoords == {-50, 0, 180, 300}
CropSizes == {-20, 0, 100}

\* IMAGE_CROP lists: config.getImageCrop accepts any number of integers
CropLists ==
    {<<x, y>> : x \in CropCoords, y \in CropCoords}
    \cup {<<x, y, w, h>> : x \in CropCoords, y \in CropCoords, w \in CropSizes, h \in CropSizes}
    \cup {<<0>>, <<0, 0, 100>>}

NoOutput == [err |-> <<"not called">>]

CropIdle == cropIn = [img |-> [rect |-> Rect(0, 0, 0, 0), white |-> TRUE, rgba |-> FALSE],
                      imageCrop |-> <<>>]
            /\ cropOut = NoOutput

InitCropImage ==
    /\ cropIn \in [img : CropSources, imageCrop : CropLists]
    /\ cropOut = NoOutput

\* cropImage(img, *p.imageCrop) is called and returns
CropImage ==
    /\ cropOut = NoOutput
    /\ cropOut' = cropImage(cropIn.img, cropIn.imageCrop)
    /\ UNCHANGED cropIn

----------------------------------------------------------------------------
(* package image: calcLux on its own *)

\* images of uniform black or white, of either type, also sub-images (Min # (0,0))
\* and images without pixels
LuxImages ==
    {[rect |-> Rect(x, y, x + w, y + h), white |-> b, rgba |-> k] :
        x \in {0, 1}, y \in {0, 1}, w \in 0 .. MaxDim, h \in 0 .. MaxDim,
        b \in BOOLEAN, k \in BOOLEAN}

LuxIdle == calcIn = [rect |-> Rect(0, 0, 0, 0), white |-> FALSE, rgba |-> FALSE]
           /\ calcOut = NoOutput

InitCalcLux ==
    /\ calcIn \in LuxImages
    /\ calcOut = NoOutput

\* calcLux(img) is called and returns
CalcLux ==
    /\ calcOut = NoOutput
    /\ calcOut' = calcLux(calcIn)
    /\ UNCHANGED calcIn

----------------------------------------------------------------------------
(* package image: calcLux on images of one colour, in float64 arithmetic      *)
(*                                                                          *)
(* totalBrightness and avgBrightness are float64. A float64 here is a record *)
(* [m, e] standing for m * 2^e, with the natural number m kept as a          *)
(* little-endian sequence of limbs of LimbBits bits (<<>> is 0); every       *)
(* operation rounds its exact result to MantBits bits, ties to even, as the  *)
(* hardware does. The values involved are far from overflow and underflow.   *)

MantBits == 53
LimbBits == 15
LimbBase == 2 ^ LimbBits

Rest(a) == IF a = <<>> THEN <<>> ELSE Tail(a)
Low(a) == IF a = <<>> THEN 0 ELSE a[1]

\* a without its leading zero limbs
RECURSIVE Trim(_)
Trim(a) ==
    IF a = <<>> THEN <<>>
    ELSE IF a[Len(a)] = 0 THEN Trim(SubSeq(a, 1, Len(a) - 1)) ELSE a

RECURSIVE AddLimbs(_, _, _)
AddLimbs(a, b, c) ==
    IF a = <<>> /\ b = <<>> THEN (IF c = 0 THEN <<>> ELSE <<c>>)
    ELSE LET x == Low(a) + Low(b) + c
         IN <<x % LimbBase>> \o AddLimbs(Rest(a), Rest(b), x \div LimbBase)

\* a * k + c for k, c below LimbBase
RECURSIVE MulSmall(_, _, _)
MulSmall(a, k, c) ==
    IF a = <<>> THEN (IF c = 0 THEN <<>> ELSE <<c>>)
    ELSE LET x == a[1] * k + c
         IN <<x % LimbBase>> \o MulSmall(Tail(a), k, x \div LimbBase)

\* quotient and remainder of a by n, for 0 < n <= LimbBase
RECURSIVE DivSmall(_, _)
DivSmall(a, n) ==
    IF a = <<>> THEN [q |-> <<>>, r |-> 0]
    ELSE LET hi == DivSmall(Tail(a), n)
             cur == hi.r * LimbBase + a[1]
         IN [q |-> <<cur \div n>> \o hi.q, r |-> cur % n]

RECURSIVE BitsOf(_)
BitsOf(n) == IF n = 0 THEN 0 ELSE 1 + BitsOf(n \div 2)

BitLen(a) == IF a = <<>> THEN 0 ELSE LimbBits * (Len(a) - 1) + BitsOf(a[Len(a)])

RECURSIVE ShiftLeft(_, _)
ShiftLeft(a, s) ==
    IF a = <<>> \/ s = 0 THEN a
    ELSE IF s >= LimbBits THEN ShiftLeft(<<0>> \o a, s - LimbBits)
    ELSE MulSmall(a, 2 ^ s, 0)

\* a without its last s bits, and whether one of these bits (or sticky) was set
RECURSIVE ShiftRight(_, _, _)
ShiftRight(a, s, sticky) ==
    IF s = 0 THEN [q |-> a, sticky |-> sticky]
    ELSE LET k == IF s >= LimbBits THEN LimbBits ELSE s
             d == DivSmall(a, 2 ^ k)
         IN ShiftRight(Trim(d.q), s - k, sticky \/ d.r # 0)

\* the float64 nearest to a * 2^e (plus a fraction of its last bit when sticky),
\* ties to even
Round(a, e, sticky) ==
    IF BitLen(a) <= MantBits THEN [m |-> a, e |-> e]
    ELSE LET s == BitLen(a) - MantBits
             g == ShiftRight(a, s - 1, sticky)
             h == DivSmall(g.q, 2)
             q == Trim(h.q)
             up == h.r = 1 /\ (g.sticky \/ Low(q) % 2 = 1)
             r == IF up THEN AddLimbs(q, <<>>, 1) ELSE q
         IN IF BitLen(r) > MantBits
            THEN [m |-> Trim(DivSmall(r, 2).q), e |-> e + s + 1]
            ELSE [m |-> r, e |-> e + s]

Zero == [m |-> <<>>, e |-> 0]

\* x + y
fadd(x, y) ==
    IF x.m = <<>> THEN y
    ELSE IF y.m = <<>> THEN x
    ELSE LET e == IF x.e < y.e THEN x.e ELSE y.e
         IN Round(AddLimbs(ShiftLeft(x.m, x.e - e), ShiftLeft(y.m, y.e - e), 0), e, FALSE)

\* x / float64(n), for an integer 0 < n <= LimbBase
fdiv(x, n) ==
    IF x.m = <<>> THEN x
    ELSE LET want == MantBits + 2 + BitsOf(n)
             k == IF BitLen(x.m) < want THEN want - BitLen(x.m) ELSE 0
             d == DivSmall(ShiftLeft(x.m, k), n)
         IN Round(Trim(d.q), x.e - k, d.r # 0)

\* x * float64(k), for an integer 0 <= k < LimbBase
fmul(x, k) == Round(MulSmall(x.m, k, 0), x.e, FALSE)

RECURSIVE Value(_)
Value(a) == IF a = <<>> THEN 0 ELSE a[1] + LimbBase * Value(Tail(a))

\* int(x): the integer part of a float64 that is not negative
int(x) ==
    IF x.e >= 0 THEN Value(ShiftLeft(x.m, x.e))
    ELSE Value(ShiftRight(x.m, 0 - x.e, FALSE).q)

\* colours (r, g, b as img.At(x, y).RGBA() returns them) with the float64
\* rLinear*rWeight + gLinear*gWeight + bLinear*bWeight of a pixel of that colour
UniformColours == {
    [r |-> 0, g |-> 0, b |-> 0, lum |-> Zero],
    [r |-> 65535, g |-> 65535, b |-> 65535, lum |-> [m |-> <<0, 0, 0, 128>>, e |-> -52]],
    [r |-> 0, g |-> 667, b |-> 2034, lum |-> [m |-> <<12390, 16018, 5201, 193>>, e |-> -63]],
    [r |-> 0, g |-> 528, b |-> 942, lum |-> [m |-> <<18212, 6760, 31802, 137>>, e |-> -63]],
    [r |-> 0, g |-> 139, b |-> 1092, lum |-> [m |-> <<9478, 4263, 24669, 220>>, e |-> -65]],
    [r |-> 1, g |-> 122, b |-> 23, lum |-> [m |-> <<9479, 4263, 24669, 220>>, e |-> -66]],
    [r |-> 2650, g |-> 2650, b |-> 2650, lum |-> [m |-> <<28990, 8775, 3653, 205>>, e |-> -61]],
    [r |-> 100, g |-> 200, b |-> 300, lum |-> [m |-> <<13216, 11318, 9651, 230>>, e |-> -65]],
    [r |-> 17, g |-> 1900, b |-> 5, lum |-> [m |-> <<21408, 21261, 31834, 210>>, e |-> -62]]}

\* the loop over the pixels: totalBrightness after n more pixels of luminance lum
RECURSIVE totalBrightness(_, _, _)
totalBrightness(total, lum, n) ==
    IF n = 0 THEN total ELSE totalBrightness(fadd(total, lum), lum, n - 1)

scaleLuxFloat(total, pixels) ==
    IF pixels = 0 THEN 0
    ELSE LET avgBrightness == fdiv(total, pixels)
         IN int(fmul(avgBrightness, luxScale))

\* calcLux of an image that is not an *image.RGBA, every pixel of one colour
calcLuxGeneric(img) ==
    IF Empty(img.rect) THEN [err |-> <<"image has no pixels to process">>, lux |-> 0]
    ELSE LET width == img.rect.maxX - img.rect.minX
             height == img.rect.maxY - img.rect.minY
             pixels == width * height
         IN [err |-> <<>>,
             lux |-> scaleLuxFloat(totalBrightness(Zero, img.colour.lum, pixels), pixels)]

\* images of one colour with at least one pixel
UniformImages ==
    {[rect |-> Rect(0, 0, w, h), colour |-> c] :
        w \in 1 .. MaxDim, h \in 1 .. MaxDim, c \in UniformColours}

InitCalcLuxUniform ==
    /\ calcIn \in UniformImages
    /\ calcOut = NoOutput

\* calcLux(img) is called and returns
CalcLuxUniform ==
    /\ calcOut = NoOutput
    /\ calcOut' = calcLuxGeneric(calcIn)
    /\ UNCHANGED calcIn

----------------------------------------------------------------------------
(* package mqtt: the unique id *)

NameChars == {"L", "l", " ", "_", "S", "1"}

\* values of HASS_NAME
Names ==
    UNION {[1 .. n -> NameChars] : n \in 0 .. MaxNameLen} \cup {HASSName}

SlugIdle == entityName = HASSName /\ uniqueIDs = <<>>

InitUniqueID ==
    /\ entityName \in Names
    /\ uniqueIDs = <<>>

\* NewPublisher(cfg) is called once more with the same cfg.HASSName
NewPublisher_UniqueID ==
    /\ Len(uniqueIDs) < MaxPublishers
    /\ uniqueIDs' = Append(uniqueIDs, slug(entityName))
    /\ UNCHANGED entityName

----------------------------------------------------------------------------
(* package main: main and runProcessingLoop *)

\* main up to its select: the channels are made, the publisher is connected, the
\* ticker is started and runProcessingLoop runs in its goroutine
\* a field of IMAGE_CROP: the text of an integer, or text that strconv.Atoi refuses
Num(n) == [ok |-> TRUE, n |-> n]
Junk == [ok |-> FALSE, n |-> 0]

\* values of IMAGE_CROP: unset or empty (<<>>), lists of integers of every length up
\* to MaxCropFields, and a list with a field that is no integer
CropEnvs ==
    {[i \in 1 .. k |-> Num(0)] : k \in 0 .. MaxCropFields} \cup {<<Num(0), Junk>>}

\* strconv.Atoi on every field, the fields being texts of integers
RECURSIVE Atois(_)
Atois(value) == IF value = <<>> THEN <<>> ELSE <<Head(value).n>> \o Atois(Tail(value))

\* config.getImageCrop: nil for the empty value, else the integers of the fields, or
\* the error of the first field that strconv.Atoi refuses
getImageCrop(value) ==
    IF value = <<>> THEN [err |-> <<>>, crop |-> Nil]
    ELSE IF \E i \in DOMAIN value : ~value[i].ok
    THEN [err |-> <<"error parsing IMAGE_CROP value">>, crop |-> Nil]
    ELSE [err |-> <<>>, crop |-> Ptr(Atois(value))]

\* config.Load, as far as IMAGE_CROP decides it
Load(value) ==
    LET c == getImageCrop(value)
    IN  IF c.err # <<>> THEN [err |-> Wrap("error parsing IMAGE_CROP", c.err), ImageCrop |-> Nil]
        ELSE [err |-> <<>>, ImageCrop |-> c.crop]

main ==
    /\ mainPc = "load"
    /\ loopPc = "select"
    /\ tickerC = 0
    /\ errChan = "empty"
    /\ sigChan = 0
    /\ ctxDone = FALSE
    /\ ticks = 0
    /\ dropped = 0
    /\ cycles = 0
    /\ publishes = 0
    /\ ticksInCycle = 0
    /\ cycleErr = FALSE
    /\ cropEnv \in CropEnvs
    /\ loopLux = 0
    /\ processed = <<>>
    /\ luxSent = <<>>
    /\ disconnects = 0

\* main: cfg, err := config.Load(); log.Fatalf on an error, else NewProcessor(cfg) and
\* NewPublisher(cfg), and publisher.Connect(ctx) is called
Main_Load ==
    /\ mainPc = "load"
    /\ mainPc' = IF Load(cropEnv).err # <<>> THEN "fatalLoad" ELSE "connect"
    /\ UNCHANGED <<loopPc, tickerC, errChan, sigChan, ctxDone, ticks, dropped, cycles,
                   publishes, ticksInCycle, cycleErr, runVars>>

\* main: Connect returned nil; defer publisher.Disconnect(), the ticker is made and
\* the loop is started
Main_ConnectOk ==
    /\ mainPc = "connect"
    /\ mainPc' = "select"
    /\ UNCHANGED <<loopPc, tickerC, errChan, sigChan, ctxDone, ticks, dropped, cycles,
                   publishes, ticksInCycle, cycleErr, runVars>>

\* main: Connect returned an error: log.Fatalf
Main_ConnectErr ==
    /\ mainPc = "connect"
    /\ mainPc' = "fatalConnect"
    /\ UNCHANGED <<loopPc, tickerC, errChan, sigChan, ctxDone, ticks, dropped, cycles,
                   publishes, ticksInCycle, cycleErr, runVars>>

\* the process is alive until os.Exit or the return of main
Running == mainPc \in {"select", "shutdown"}

InCycle == loopPc \in {"process", "publish"}

\* mutant of TickerSend: ticks queue up without bound
TickerSendQueued(c) == c + 1

\* time.Ticker: a tick is put in ticker.C unless one is waiting there already (the
\* ticker "drops ticks to make up for slow receivers")
TickerSend(c) == IF c < 1 THEN c + 1 ELSE c

\* the ticker fires
Tick ==
    /\ Running
    /\ ticks < MaxTicks
    /\ ticks' = ticks + 1
    /\ tickerC' = TickerSend(tickerC)
    /\ dropped' = IF tickerC' = tickerC THEN dropped + 1 ELSE dropped
    /\ ticksInCycle' = IF InCycle THEN ticksInCycle + 1 ELSE ticksInCycle
    /\ UNCHANGED <<mainPc, loopPc, errChan, sigChan, ctxDone, cycles, publishes, cycleErr,
                   runVars>>

\* SIGINT or SIGTERM is delivered (signal.Notify)
Signal ==
    /\ Running
    /\ sigChan = 0
    /\ mainPc = "select"
    /\ sigChan' = 1
    /\ UNCHANGED <<mainPc, loopPc, tickerC, errChan, ctxDone, ticks, dropped, cycles,
                   publishes, ticksInCycle, cycleErr, runVars>>

\* runProcessingLoop, select: case <-ticker.C, processor.Process(ctx) is called
Loop_Tick ==
    /\ Running
    /\ loopPc = "select"
    /\ tickerC > 0
    /\ tickerC' = tickerC - 1
    /\ loopPc' = "process"
    /\ cycles' = cycles + 1
    /\ ticksInCycle' = 0
    /\ UNCHANGED <<mainPc, errChan, sigChan, ctxDone, ticks, dropped, publishes, cycleErr,
                   runVars>>

\* runProcessingLoop, select: case <-ctx.Done()
Loop_Done ==
    /\ Running
    /\ loopPc = "select"
    /\ ctxDone
    /\ loopPc' = "returned"
    /\ UNCHANGED <<mainPc, tickerC, errChan, sigChan, ctxDone, ticks, dropped, cycles,
                   publishes, ticksInCycle, cycleErr, runVars>>

\* mutant of AfterCycleErr: the loop goes on after an error
AfterCycleErrContinue == "select"

\* runProcessingLoop: where the loop is after errChan <- err
AfterCycleErr == "returned"

\* Process can return a lux: the crop list, if there is one, is one cropImage takes
ProcessCanSucceed ==
    IF imageCrop = Nil THEN TRUE
    ELSE \E img \in DecodedImages : cropImage(img, imageCrop[1]).err = <<>>

\* the errors Process can return: the download failed, or cropImage refused
ProcessErrors ==
    {"error downloading image: failed after 3 attempts"}
    \cup (IF imageCrop = Nil THEN {}
          ELSE {"error downloading image: failed to crop image: "
                    \o cropImage(img, imageCrop[1]).err[1] :
                        img \in {i \in DecodedImages : cropImage(i, imageCrop[1]).err # <<>>}})

\* mutant of LuxArg: the state message carries 0
LuxArgZero(l) == 0

\* runProcessingLoop: the argument of publisher.PublishLux(ctx, lux)
LuxArg(l) == l

\* Process returned (l, nil): publisher.PublishLux(ctx, lux) is called
Loop_ProcessOk(l) ==
    /\ Running
    /\ loopPc = "process"
    /\ ProcessCanSucceed
    /\ loopLux' = l
    /\ processed' = Append(processed, [ok |-> TRUE, lux |-> l])
    /\ luxSent' = Append(luxSent, LuxArg(loopLux'))
    /\ loopPc' = "publish"
    /\ publishes' = publishes + 1
    /\ UNCHANGED <<mainPc, tickerC, errChan, sigChan, ctxDone, ticks, dropped, cycles,
                   ticksInCycle, cycleErr, cropEnv, disconnects>>

\* Process returned (0, err): errChan <- err; return
Loop_ProcessErr(err) ==
    /\ Running
    /\ loopPc = "process"
    /\ loopLux' = 0
    /\ processed' = Append(processed, [ok |-> FALSE, lux |-> 0])
    /\ errChan' = err
    /\ loopPc' = AfterCycleErr
    /\ cycleErr' = TRUE
    /\ UNCHANGED <<mainPc, tickerC, sigChan, ctxDone, ticks, dropped, cycles, publishes,
                   ticksInCycle, cropEnv, luxSent, disconnects>>

\* PublishLux returned nil: back to the select
Loop_PublishOk ==
    /\ Running
    /\ loopPc = "publish"
    /\ loopPc' = "select"
    /\ UNCHANGED <<mainPc, tickerC, errChan, sigChan, ctxDone, ticks, dropped, cycles,
                   publishes, ticksInCycle, cycleErr, runVars>>

\* PublishLux returned an error: errChan <- err; return
Loop_PublishErr ==
    /\ Running
    /\ loopPc = "publish"
    /\ errChan' = "publish error"
    /\ loopPc' = AfterCycleErr
    /\ cycleErr' = TRUE
    /\ UNCHANGED <<mainPc, tickerC, sigChan, ctxDone, ticks, dropped, cycles, publishes,
                   ticksInCycle, runVars>>

\* main, select: case err := <-errChan: cancel(); os.Exit(1)
Main_Err ==
    /\ mainPc = "select"
    /\ errChan # "empty"
    /\ errChan' = "empty"
    /\ ctxDone' = TRUE
    /\ mainPc' = "exit1"
    /\ UNCHANGED <<loopPc, tickerC, sigChan, ticks, dropped, cycles, publishes,
                   ticksInCycle, cycleErr, runVars>>

\* main, select: case sig := <-sigChan: cancel(); main goes on to its return
Main_Signal ==
    /\ mainPc = "select"
    /\ sigChan > 0
    /\ sigChan' = sigChan - 1
    /\ ctxDone' = TRUE
    /\ mainPc' = "shutdown"
    /\ UNCHANGED <<loopPc, tickerC, errChan, ticks, dropped, cycles, publishes,
                   ticksInCycle, cycleErr, runVars>>

\* main returns after the signal branch: the process ends
Main_Return ==
    /\ mainPc = "shutdown"
    /\ mainPc' = "exit0"
    /\ disconnects' = disconnects + 1
    /\ UNCHANGED <<loopPc, tickerC, errChan, sigChan, ctxDone, ticks, dropped, cycles,
                   publishes, ticksInCycle, cycleErr, cropEnv, loopLux, processed,
                   luxSent>>

----------------------------------------------------------------------------
(* The specifications *)

\* the publisher alone: the processor stays as constructed
\* the components a specification leaves as constructed
PubIdle == NewPublisher /\ autoDiscoveryEnabled
MainIdle == main /\ cropEnv = <<>>
DlIdle == NewProcessor /\ urlOk /\ imageCrop = Nil

Init ==
    /\ NewPublisher
    /\ DlIdle /\ MainIdle /\ CropIdle /\ LuxIdle /\ SlugIdle

Next ==
    \/ Connect /\ UNCHANGED offPub
    \/ ConnectReturnOk /\ UNCHANGED offPub
    \/ ConnectReturnTokenErr /\ UNCHANGED offPub
    \/ \E cause \in ConnectErrs : ConnectReturnErr(cause) /\ UNCHANGED offPub
    \/ BrokerConnected /\ UNCHANGED offPub
    \/ ConnectionLost /\ UNCHANGED offPub
    \/ OnConnect_Publish /\ UNCHANGED offPub
    \/ OnConnect_Subscribe /\ UNCHANGED offPub
    \/ OnConnect_SubAck /\ UNCHANGED offPub
    \/ OnConnect_SubFail /\ UNCHANGED offPub
    \/ \E payload \in BirthPayloads : BirthMessage(payload) /\ UNCHANGED offPub
    \/ \E lux \in Luxes : PublishLux(lux) /\ UNCHANGED offPub
    \/ PublishLux_StateOk /\ UNCHANGED offPub
    \/ PublishLux_StateFail /\ UNCHANGED offPub
    \/ PublishLux_DiscoveryOk /\ UNCHANGED offPub
    \/ PublishLux_DiscoveryFail /\ UNCHANGED offPub
    \/ Disconnect /\ UNCHANGED offPub
    \/ OfflineAcked /\ UNCHANGED offPub
    \/ Disconnect_Close /\ UNCHANGED offPub

Spec == Init /\ [][Next]_vars

\* Spec with the progress the scheduling gives: Disconnect goes on once its token
\* is done, and a broker that stays connected acknowledges the "offline" publish.
\* Nothing makes an unreachable broker come back.
FairSpec ==
    /\ Spec
    /\ WF_vars(Disconnect_Close /\ UNCHANGED offPub)
    /\ WF_vars(OfflineAcked /\ UNCHANGED offPub)

\* Spec with the progress the timers and the scheduling give to the waits on
\* publishes: the publishTimeout timer of waitForPublish ends a wait that nothing
\* else ends, and a goroutine whose token has completed goes on. Nothing makes the
\* broker acknowledge or an unreachable broker come back.
FairSpecPub ==
    /\ Spec
    /\ WF_vars(PublishLux_StateFail /\ UNCHANGED offPub)
    /\ WF_vars(PublishLux_DiscoveryFail /\ UNCHANGED offPub)
    /\ WF_vars(OnConnect_Publish /\ UNCHANGED offPub)
    /\ WF_vars(OnConnect_Subscribe /\ UNCHANGED offPub)
    /\ WF_vars(OnConnect_SubFail /\ UNCHANGED offPub)

\* the processor alone: the publisher stays as constructed
InitDl ==
    /\ NewProcessor
    /\ PubIdle /\ MainIdle /\ CropIdle /\ LuxIdle /\ SlugIdle

NextDl ==
    \/ Process /\ UNCHANGED offDl
    \/ Cancel /\ UNCHANGED offDl
    \/ \E r \in Responses \cup {CancelledResponse} : Do(r) /\ UNCHANGED offDl
    \/ HandleResponse /\ UNCHANGED offDl
    \/ Backoff_Cancelled /\ UNCHANGED offDl
    \/ Backoff_Elapsed /\ UNCHANGED offDl

SpecDl == InitDl /\ [][NextDl]_vars

\* cropImage alone
InitCrop ==
    /\ InitCropImage
    /\ PubIdle /\ DlIdle /\ MainIdle /\ LuxIdle /\ SlugIdle

NextCrop == CropImage /\ UNCHANGED offCrop

SpecCrop == InitCrop /\ [][NextCrop]_vars

\* calcLux alone
InitLux ==
    /\ InitCalcLux
    /\ PubIdle /\ DlIdle /\ MainIdle /\ CropIdle /\ SlugIdle

NextLux == CalcLux /\ UNCHANGED offLux

SpecLux == InitLux /\ [][NextLux]_vars

\* calcLux alone, on images of one colour and in float64 arithmetic
InitUniform ==
    /\ InitCalcLuxUniform
    /\ PubIdle /\ DlIdle /\ MainIdle /\ CropIdle /\ SlugIdle

NextUniform == CalcLuxUniform /\ UNCHANGED offLux

SpecUniform == InitUniform /\ [][NextUniform]_vars

\* the unique id alone
InitSlug ==
    /\ InitUniqueID
    /\ PubIdle /\ DlIdle /\ MainIdle /\ CropIdle /\ LuxIdle

NextSlug == NewPublisher_UniqueID /\ UNCHANGED offSlug

SpecSlug == InitSlug /\ [][NextSlug]_vars

\* the orchestrator alone: Process and PublishLux are calls that return a value or
\* an error; the publisher stays as constructed and the processor holds the crop
\* list of the configuration
InitMain ==
    /\ main
    /\ urlOk = TRUE /\ imageCrop = Load(cropEnv).ImageCrop /\ NotProcessed
    /\ PubIdle /\ CropIdle /\ LuxIdle /\ SlugIdle

NextMain ==
    \/ Main_Load /\ UNCHANGED offMain
    \/ Main_ConnectOk /\ UNCHANGED offMain
    \/ Main_ConnectErr /\ UNCHANGED offMain
    \/ Tick /\ UNCHANGED offMain
    \/ Signal /\ UNCHANGED offMain
    \/ Loop_Tick /\ UNCHANGED offMain
    \/ Loop_Done /\ UNCHANGED offMain
    \/ \E l \in Luxes : Loop_ProcessOk(l) /\ UNCHANGED offMain
    \/ \E err \in ProcessErrors : Loop_ProcessErr(err) /\ UNCHANGED offMain
    \/ Loop_PublishOk /\ UNCHANGED offMain
    \/ Loop_PublishErr /\ UNCHANGED offMain
    \/ Main_Err /\ UNCHANGED offMain
    \/ Main_Signal /\ UNCHANGED offMain
    \/ Main_Return /\ UNCHANGED offMain

SpecMain == InitMain /\ [][NextMain]_vars

\* SpecMain with the progress of main's select: a value waiting in errChan is
\* received unless main has left the select by its other case
FairSpecMain == SpecMain /\ WF_vars(Main_Err /\ UNCHANGED offMain)

----------------------------------------------------------------------------
(* The publisher's claims (Spec, FairSpec) *)

\* a step in which PublishLux returns
LuxReturns == luxPc # "idle" /\ luxPc' = "idle"

\* C1: with auto-discovery on, as long as every PublishLux succeeded and no birth
\* "online" arrived, N calls made N state publishes and one discovery publish, and
\* that one was issued by the first call.
C1_OneDiscoveryPerCycle ==
    (autoDiscoveryEnabled /\ ~callsFailed /\ onlines = 0) =>
        /\ CountOn(topic) = calls
        /\ Count(DiscoveryMsg) <= 1
        /\ (luxPc = "idle" /\ calls >= 1) => Count(DiscoveryMsg) = 1
        /\ calls >= 2 => (Count(DiscoveryMsg) = 1 /\ callDisc = 0)

C1_Witness ==
    /\ autoDiscoveryEnabled /\ ~callsFailed /\ onlines = 0
    /\ luxPc = "idle" /\ calls = MaxCalls
    /\ CountOn(topic) = MaxCalls /\ Count(DiscoveryMsg) = 1

\* C2: a re-announce request is never lost: while a birth "online" has arrived and
\* no discovery publish was issued since, needToPublishDiscovery is set, so that the
\* next successful PublishLux publishes the discovery document.
C2_ReannounceNotLost ==
    (autoDiscoveryEnabled /\ owed) => needToPublishDiscovery

\* C3: a birth "online" delivered while connected, with the flag clear and no
\* PublishLux in flight, sets the flag; the flag stays set until a PublishLux clears
\* it; and a successful PublishLux called with the flag set has published the
\* discovery document exactly once.
C3_BirthOnlineReannounces ==
    [][ /\ (onlines' = onlines + 1 /\ status = "connected" /\ luxPc = "idle"
              /\ ~needToPublishDiscovery) => needToPublishDiscovery'
        /\ (needToPublishDiscovery /\ ~needToPublishDiscovery') => luxPc = "waitDisc"
        /\ (LuxReturns /\ luxResult' = "ok" /\ autoDiscoveryEnabled /\ pendingAtCall)
              => (callDisc' = 1 /\ Count(DiscoveryMsg)' >= 1)
      ]_vars

C3_Witness ==
    /\ onlines = 1 /\ ~onlineInCall /\ pendingAtCall
    /\ luxPc = "idle" /\ luxResult = "ok" /\ callDisc = 1
    /\ Count(DiscoveryMsg) = 2 /\ ~needToPublishDiscovery

\* C4 as claimed: when PublishLux returns an error, needToPublishDiscovery has the
\* value it had when PublishLux was called, and a failed state publish is followed
\* by no discovery publish in that call.
C4_FailedCallSamePending ==
    [][ (LuxReturns /\ luxResult' = "err") =>
            /\ needToPublishDiscovery' = pendingAtCall
            /\ luxPc = "waitState" => callDisc' = 0
      ]_vars

\* C4 as amended: a failing PublishLux does not write needToPublishDiscovery: on its
\* return the flag has the value it had at the call, unless a birth "online" arrived
\* during the call, and then it is set; a failed state publish is followed by no
\* publish at all in that call.
C4_FailedCallLeavesPending ==
    [][ (LuxReturns /\ luxResult' = "err") =>
            /\ needToPublishDiscovery' = needToPublishDiscovery
            /\ needToPublishDiscovery' = (pendingAtCall \/ onlineInCall)
            /\ luxPc = "waitState" => (callDisc' = 0 /\ sent' = sent)
      ]_vars

C4_Witness ==
    /\ luxPc = "idle" /\ luxResult = "err" /\ callsFailed
    /\ callDisc = 1 /\ pendingAtCall /\ needToPublishDiscovery

\* C5: every entry into connected starts one on-connect handler; each handler
\* publishes "online" (retained, availability topic) first, and each handler past
\* that publish subscribes to the birth topic exactly when auto-discovery is on.
C5_OnConnectActions ==
    /\ handlers["publish"] + handlers["wait"] + handlers["waitSub"] + handlers["done"] = connects
    /\ Count(OnlineMsg) = connects - handlers["publish"]
    /\ CountOn(availabilityTopic) = Count(OnlineMsg) + Count(OfflineMsg)
    /\ OnlineMsg.retained
    /\ subs = IF autoDiscoveryEnabled THEN handlers["waitSub"] + handlers["done"] ELSE 0
    /\ status = "connected" => connects >= 1

C5_Witness ==
    /\ autoDiscoveryEnabled /\ connects = 2 /\ status = "connected"
    /\ Count(OnlineMsg) = 2 /\ subs = 2 /\ handlers["done"] = 2 /\ subscribed

\* C9: Disconnect always returns, also when the broker has become unreachable and
\* the "offline" publish is never acknowledged. (The second disjunct leaves out the
\* behaviours in which the broker cannot come back only because the model's
\* MaxConnects is used up.)
C9_DisconnectReturns == (discPc = "wait") ~> (discPc = "done" \/ connects = MaxConnects)

\* C10: the session is closed only after Disconnect has issued the retained
\* "offline" publish on the availability topic, and it is closed once Disconnect
\* has returned.
C10_OfflineBeforeClose ==
    /\ status = "closed" => (discPc = "done" /\ Count(OfflineMsg) = 1)
    /\ discPc = "done" => status = "closed"
    /\ discPc # "none" => Count(OfflineMsg) = 1
    /\ discPc = "none" => Count(OfflineMsg) = 0

C10_Witness ==
    /\ discPc = "done" /\ status = "closed" /\ Count(OfflineMsg) = 1
    /\ OfflineMsg.retained /\ OfflineMsg.topic = availabilityTopic

\* C11: Connect returns success only when the handshake has completed without error
\* before the timeout and before cancellation; a return while the handshake has not
\* completed (the timer fired, ctx was cancelled, or the token failed) is an error.
C11_ConnectOutcome ==
    [][ connectPc' # connectPc =>
            /\ connectPc' = "ok" =>
                   (connectPc = "waiting" /\ connects >= 1
                      /\ status \in {"connected", "reconnecting"})
            /\ (connectPc \in {"waiting", "tokenFailed"} /\ connects = 0) =>
                   connectPc' \in {"timeout", "cancelled", "tokenErr"}
            /\ connectPc' \in {"timeout", "cancelled"} => connectPc # "none"
      ]_vars

C11_Witness ==
    /\ connectPc = "timeout" /\ connects = 0 /\ status = "connecting"

\* C18: every message handed to client.Publish is a state message (state topic,
\* QoS 1, not retained, the lux in decimal), an availability message (availability
\* topic, retained, "online" or "offline") or a discovery message (config topic under
\* <discovery-root>/sensor, QoS 1, retained).
C18_MessageShapes ==
    \A m \in BagToSet(sent) :
        \/ /\ m.topic = <<"darkdetector", "light_sensor", "state">>
           /\ m.qos = 1 /\ ~m.retained /\ m.payload \in {"0", "9500"}
        \/ /\ m.topic = <<"darkdetector", "light_sensor", "availability">>
           /\ m.retained /\ m.payload \in {"online", "offline"}
        \/ /\ m.topic = <<"homeassistant", "sensor", "light_sensor", "config">>
           /\ m.qos = 1 /\ m.retained

C18_Witness ==
    /\ Count(StateMsg(9500)) >= 1 /\ Count(StateMsg(0)) >= 1
    /\ Count(DiscoveryMsg) >= 1 /\ Count(OnlineMsg) >= 1 /\ Count(OfflineMsg) = 1

----------------------------------------------------------------------------
(* The processor's claims (SpecDl) *)

\* the cause of a failed attempt, read off the response
RespCause(r) ==
    CASE r.kind = "error" -> r.err[Len(r.err)]
      [] r.kind = "status" -> "unexpected status code: " \o Itoa(r.code)
      [] r.kind = "undecodable" -> "image: unknown format"

\* a step in which downloadImage handles the response of an attempt
Handles == dlPc = "responded" /\ dlPc' # "responded"

\* C6: a Process call makes at most 3 HTTP attempts; a failed attempt with attempts
\* left goes to the next backoff and, when that elapses, to the next attempt; a
\* decoded image ends the call with no further attempt; after the third failed
\* attempt Process returns an error that wraps the cause of that third attempt.
C6_ThreeAttempts ==
    [][ /\ httpAttempts' <= 3
        /\ (Handles /\ resp.kind # "image" /\ httpAttempts < 3)
              => (dlPc' = "backoff" /\ ~result'.returned)
        /\ (dlPc = "backoff" /\ dlPc' = "inflight") => httpAttempts' = httpAttempts + 1
        /\ (Handles /\ resp.kind = "image")
              => (dlPc' = "done" /\ result'.returned /\ httpAttempts' = httpAttempts)
        /\ (dlPc = "done" /\ processCalls' = processCalls) => httpAttempts' = httpAttempts
        /\ (Handles /\ resp.kind # "image" /\ httpAttempts = 3)
              => /\ dlPc' = "done" /\ result'.returned
                 /\ result'.err[1] = "error downloading image"
                 /\ result'.err[2] = "failed after 3 attempts"
                 /\ Cause(result'.err) = RespCause(resp)
      ]_vars

C6_Witness ==
    /\ dlPc = "done" /\ httpAttempts = 3 /\ cancelPoint.at = "none"
    /\ resp.kind = "status" /\ resp.code = 500
    /\ Cause(result.err) = "unexpected status code: 500"

\* C7: the backoff before attempt 2 is 1 time-unit and before attempt 3 is 2: a call
\* that succeeds on its third attempt has waited 1 + 2 = 3 time-units.
C7_BackoffOneTwo ==
    /\ (httpAttempts = 2 /\ dlPc \in {"inflight", "responded"}) => waited = 1
    /\ (httpAttempts = 3 /\ dlPc = "done" /\ result.returned /\ result.err = <<>>)
          => waited = 3

EmptyRegion ==
    /\ resp.kind = "image"
    /\ \/ Empty(resp.img.rect)
       \/ /\ imageCrop # Nil
          /\ cropImage(resp.img, imageCrop[1]).err = <<>>
          /\ Empty(cropImage(resp.img, imageCrop[1]).img.rect)

\* C16: when the decoded image or the cropped region has no pixels, Process returns
\* an empty-image error and no lux, at once: no HTTP attempt and no backoff follows.
C16_EmptyImageNotRetried ==
    [][ /\ (Handles /\ EmptyRegion) =>
              /\ dlPc' = "done" /\ result'.returned /\ result'.lux = 0
              /\ result'.err # <<>>
              /\ Cause(result'.err) \in {"image has no pixels to process",
                                         "image has no pixels to crop"}
              /\ httpAttempts' = httpAttempts /\ waited' = waited
        /\ (dlPc = "done" /\ processCalls' = processCalls) =>
              (httpAttempts' = httpAttempts /\ waited' = waited /\ dlPc' = "done")
      ]_vars

C16_Witness ==
    /\ dlPc = "done" /\ imageCrop = Ptr(<<3, 3>>) /\ resp.kind = "image"
    /\ ~Empty(resp.img.rect) /\ httpAttempts = 2 /\ cancelPoint.at = "none"
    /\ result.err = <<"error processing image", "image has no pixels to process">>

\* C17: with an image URL that url.Parse refuses, Process returns the invalid-URL
\* error at once: no HTTP attempt is made and no backoff is waited.
C17_InvalidURLFailsFast ==
    ~urlOk =>
        /\ httpAttempts = 0 /\ waited = 0 /\ resp = NoResponse
        /\ dlPc \in {"idle", "done"}
        /\ processCalls >= 1 =>
              /\ dlPc = "done" /\ result.returned /\ result.lux = 0
              /\ result.err = <<"invalid image URL", "parse error">>

C17_Witness ==
    /\ ~urlOk /\ processCalls = 1 /\ dlPc = "done" /\ httpAttempts = 0
    /\ result.returned /\ result.err[1] = "invalid image URL"

----------------------------------------------------------------------------
(* The orchestrator's claims (SpecMain, FairSpecMain) *)

\* C12: the loop runs one cycle at a time: a Process call starts only from the loop's
\* select, with no Process or PublishLux outstanding, and takes one tick out of
\* ticker.C; ticker.C never holds more than one tick, so of k ticks fired during a
\* cycle at least k - 1 are dropped and at most one later cycle comes of them.
C12_CyclesCoalesce ==
    [][ /\ tickerC' <= 1
        /\ cycles' \in {cycles, cycles + 1}
        /\ cycles' = cycles + 1 => (~InCycle /\ loopPc = "select" /\ tickerC = 1 /\ tickerC' = 0)
        /\ publishes' = publishes + 1 => (loopPc = "process" /\ cycles' = cycles)
        /\ publishes' <= cycles'
        /\ cycles' + tickerC' + dropped' = ticks'
        /\ ticksInCycle' >= 1 => dropped' >= ticksInCycle' - 1
      ]_vars

C12_Witness ==
    /\ loopPc = "process" /\ cycles = 2 /\ ticks = 4 /\ dropped = 2 /\ tickerC = 0
    /\ ~cycleErr

\* C13: an error returned by Process or PublishLux ends the loop: no Process or
\* PublishLux call follows it; and the orchestrator then leaves its select for a
\* shutdown branch.
C13_CycleErrorFatal ==
    /\ [][ cycleErr => (loopPc = "returned" /\ cycles' = cycles /\ publishes' = publishes)
         ]_vars
    /\ (cycleErr ~> mainPc # "select")

C13_Witness ==
    /\ cycleErr /\ loopPc = "returned" /\ mainPc = "exit1" /\ ctxDone
    /\ cycles = 2 /\ publishes = 2 /\ tickerC = 1

----------------------------------------------------------------------------
(* The claims about cropImage (SpecCrop) *)

\* the rectangle [x, x+w) x [y, y+h) a crop list asks for
Requested(crop) ==
    LET w == IF Len(crop) = 4 THEN crop[3] ELSE 100
        h == IF Len(crop) = 4 THEN crop[4] ELSE 100
    IN  [minX |-> crop[1], minY |-> crop[2], maxX |-> crop[1] + w, maxY |-> crop[2] + h]

\* the intersection of two rectangles as sets of points, (0,0)-(0,0) when there is none
Clamped(r, b) ==
    IF max(r.minX, b.minX) < min(r.maxX, b.maxX) /\ max(r.minY, b.minY) < min(r.maxY, b.maxY)
    THEN [minX |-> max(r.minX, b.minX), minY |-> max(r.minY, b.minY),
          maxX |-> min(r.maxX, b.maxX), maxY |-> min(r.maxY, b.maxY)]
    ELSE [minX |-> 0, minY |-> 0, maxX |-> 0, maxY |-> 0]

\* C14: the region cropImage hands on is the requested rectangle [x, x+w) x [y, y+h)
\* (w = h = 100 for a list of two) intersected with the image bounds.
C14_CropIsClampedRequest ==
    (cropOut # NoOutput /\ cropOut.err = <<>>) =>
        cropOut.img.rect = Clamped(Requested(cropIn.imageCrop), cropIn.img.rect)

\* C15: for every list of 2 or 4 integers, the region cropImage returns lies within
\* the bounds of the source image and has non-negative width and height.
C15_CropWithinBounds ==
    (cropOut # NoOutput /\ cropOut.err = <<>>) =>
        LET r == cropOut.img.rect
            b == cropIn.img.rect
        IN  /\ Len(cropIn.imageCrop) \in {2, 4}
            /\ b.minX <= r.minX /\ r.minX <= r.maxX /\ r.maxX <= b.maxX
            /\ b.minY <= r.minY /\ r.minY <= r.maxY /\ r.maxY <= b.maxY

C15_Witness ==
    /\ cropIn.imageCrop = <<180, -50, -20, 100>> /\ cropIn.img.rect = Rect(0, 0, 200, 200)
    /\ cropOut = [err |-> <<>>,
                  img |-> [rect |-> Rect(160, 0, 180, 100), white |-> TRUE, rgba |-> TRUE]]

----------------------------------------------------------------------------
(* The claims about calcLux (SpecLux) and the unique id (SpecSlug) *)

\* C19: the unique id is the entity name in lower case with "_" for every space; the
\* derivation is idempotent, publishers built from one name get one id, and the
\* name "Light Sensor" gives "light_sensor".
C19_SlugIdempotent ==
    \A i \in DOMAIN uniqueIDs :
        LET id == uniqueIDs[i]
        IN  /\ slug(id) = id
            /\ id = uniqueIDs[1]
            /\ Len(id) = Len(entityName)
            /\ \A k \in DOMAIN id :
                  /\ id[k] # " "
                  /\ \A u \in DOMAIN UpperCase : id[k] # UpperCase[u]
                  /\ entityName[k] = " " => id[k] = "_"
            /\ String(entityName) = "Light Sensor" => String(id) = "light_sensor"

C19_Witness ==
    /\ String(entityName) = "Light Sensor" /\ Len(uniqueIDs) = 2
    /\ String(uniqueIDs[1]) = "light_sensor" /\ String(uniqueIDs[2]) = "light_sensor"

\* C20: for an image with at least one pixel, calcLux returns 0 when all pixels are
\* black and 9500 when all are white, whatever the dimensions and on both paths.
C20_BlackAndWhite ==
    (calcOut # NoOutput /\ ~Empty(calcIn.rect)) =>
        /\ calcOut.err = <<>>
        /\ calcOut.lux = IF calcIn.white THEN 9500 ELSE 0

C20_Witness ==
    /\ calcIn = [rect |-> Rect(1, 0, 1 + MaxDim, 2), white |-> TRUE, rgba |-> TRUE]
    /\ calcOut = [err |-> <<>>, lux |-> 9500]

\* C21: calcLux of a W x H image filled with one colour equals calcLux of the
\* 1 x 1 image of that colour, whatever W and H are
C21_ScaleInvariant ==
    calcOut # NoOutput =>
        calcOut = calcLuxGeneric([rect |-> Rect(0, 0, 1, 1), colour |-> calcIn.colour])

\* C22: needToPublishDiscovery is set at construction; it goes from set to clear only
\* in the step in which a discovery publish succeeds, and from clear to set only in
\* the step that delivers a birth "online"; a connection loss or a reconnect leaves
\* it as it is.
C22_PendingChangesOnlyBy ==
    /\ needToPublishDiscovery = TRUE
    /\ [][ /\ (needToPublishDiscovery /\ ~needToPublishDiscovery') =>
                  (luxPc = "waitDisc" /\ status = "connected" /\ luxResult' = "ok")
           /\ (~needToPublishDiscovery /\ needToPublishDiscovery') =>
                  onlines' = onlines + 1
           /\ (status' # status \/ connects' # connects) =>
                  needToPublishDiscovery' = needToPublishDiscovery
         ]_vars

C22_Witness ==
    /\ connects = MaxConnects /\ status = "connected"
    /\ luxPc = "idle" /\ luxResult = "ok" /\ pendingAtCall /\ callDisc = 1
    /\ onlines = 1 /\ ~onlineInCall /\ needToPublishDiscovery

\* C23: the delivery of a birth message whose payload is not "online" leaves
\* needToPublishDiscovery and the published messages as they are; and while no
\* "online" was delivered and the flag is clear, the flag stays clear and no
\* discovery document is published.
C23_OtherPayloadsIgnored ==
    [][ /\ (births' = births + 1 /\ onlines' = onlines) =>
              (needToPublishDiscovery' = needToPublishDiscovery /\ sent' = sent)
        /\ (onlines' = 0 /\ ~needToPublishDiscovery) =>
              (~needToPublishDiscovery' /\ Count(DiscoveryMsg)' = Count(DiscoveryMsg))
      ]_vars

C23_Witness ==
    /\ births = MaxBirths /\ onlines = 0
    /\ calls = MaxCalls /\ luxPc = "idle" /\ luxResult = "ok" /\ callDisc = 0
    /\ ~needToPublishDiscovery /\ Count(DiscoveryMsg) = 1

\* C24: with auto-discovery off no discovery document is published and the birth
\* topic is not subscribed, whatever connects, reconnects and PublishLux calls
\* happen; a PublishLux call publishes the state message and nothing else, and has
\* nothing to wait for after the state publish.
C24_DiscoveryOff ==
    ~autoDiscoveryEnabled =>
        /\ Count(DiscoveryMsg) = 0 /\ CountOn(discoveryTopic) = 0
        /\ subs = 0 /\ ~subscribed /\ births = 0
        /\ handlers["waitSub"] = 0
        /\ luxPc # "waitDisc" /\ callDisc = 0
        /\ CountOn(topic) = calls
        /\ BagCardinality(sent) = calls + Count(OnlineMsg) + Count(OfflineMsg)

C24_Witness ==
    /\ ~autoDiscoveryEnabled
    /\ connects = MaxConnects /\ handlers["done"] = MaxConnects
    /\ calls = MaxCalls /\ luxPc = "idle" /\ luxResult = "ok" /\ ~callsFailed

\* C25: no wait on a publish outlasts the timeout: a PublishLux call that waits on
\* its state or discovery publish returns, and an on-connect handler that waits on
\* its "online" publish goes on to the birth-topic subscription, also when the
\* acknowledgement never arrives.
C25_PublishWaitsBounded ==
    /\ (luxPc # "idle") ~> (luxPc = "idle")
    /\ (handlers["wait"] > 0) ~> (handlers["wait"] = 0)

\* the part of C25 about PublishLux alone
C25_PublishLuxReturns == (luxPc # "idle") ~> (luxPc = "idle")

\* the lux values of the Process calls that returned no error, in order
RECURSIVE OkLuxes(_)
OkLuxes(rs) ==
    IF rs = <<>> THEN <<>>
    ELSE (IF Head(rs).ok THEN <<Head(rs).lux>> ELSE <<>>) \o OkLuxes(Tail(rs))

\* C26: PublishLux is called only right after the Process call of the same cycle
\* returned without error, with the lux that call returned; the arguments of all
\* PublishLux calls are the lux values of the successful Process calls, in order; a
\* failed Process call is followed by no PublishLux call.
C26_PublishWhatProcessReturned ==
    [][ /\ luxSent' = OkLuxes(processed')
        /\ Len(luxSent') = publishes'
        /\ Len(processed') = cycles' - (IF loopPc' = "process" THEN 1 ELSE 0)
        /\ publishes' = publishes + 1 =>
              /\ loopPc = "process" /\ cycles' = cycles
              /\ processed' = Append(processed, [ok |-> TRUE, lux |-> loopLux'])
              /\ luxSent' = Append(luxSent, loopLux')
        /\ (Len(processed') = Len(processed) + 1 /\ ~processed'[Len(processed')].ok) =>
              (luxSent' = luxSent /\ publishes' = publishes /\ loopPc' = "returned")
        /\ (processed # <<>> /\ ~processed[Len(processed)].ok) => luxSent' = luxSent
      ]_vars

C26_Witness ==
    /\ Len(processed) = 3 /\ ~processed[3].ok /\ loopLux = 0
    /\ luxSent = <<9500, 0>> /\ publishes = 2 /\ mainPc = "exit1"

\* IMAGE_CROP is a list of integers whose length is neither 2 nor 4
MalformedCrop ==
    /\ cropEnv # <<>>
    /\ \A i \in DOMAIN cropEnv : cropEnv[i].ok
    /\ Len(cropEnv) \notin {2, 4}

\* C27: with a malformed IMAGE_CROP main does not get past config.Load: Load returns
\* an error and main ends in log.Fatalf, Connect is not called and no cycle runs.
C27_MalformedCropRejectedAtStartup ==
    MalformedCrop => (mainPc \in {"load", "fatalLoad"} /\ cycles = 0 /\ errChan = "empty")

\* C28: when the process has exited after a successful Connect, by the signal branch
\* or by the error branch, publisher.Disconnect was called.
C28_DisconnectOnEveryExit ==
    mainPc \in {"exit0", "exit1"} => disconnects = 1

\* C29: once Connect has returned a timeout or a cancellation error the session does
\* not enter connected any more, and when it had not been connected before, no
\* "online" is published and the birth topic is not subscribed.
C29_FailedConnectStaysDown ==
    [][ (connectPc \in ConnectErrs) =>
            /\ connects' = connects
            /\ status' # status => status' # "connected"
            /\ connects = 0 => (Count(OnlineMsg)' = 0 /\ subs' = 0)
      ]_vars

====
